---------------------------- MODULE Spec2Model ----------------------------
(***************************************************************************)
(* Model of autoscrape/backends/selenium/tags.py (class Tagger).           *)
(*                                                                         *)
(* The Tagger is stateless: every operation is a query against the live    *)
(* DOM snapshot held by the browser session.  The state of the model is    *)
(* that snapshot (dom) and the last call made on the Tagger with its       *)
(* arguments and its return value (op, arg, ret).                          *)
(*                                                                         *)
(* A snapshot is the sequence of the document's nodes in document order    *)
(* (preorder).  Node i is the i-th node; every node records its depth      *)
(* below the document node, so the tree is recovered from the sequence.    *)
(* Names are sequences of one-character strings, so that toLowerCase is    *)
(* computed character by character as the script computes it.              *)
(***************************************************************************)
EXTENDS Integers, Sequences, FiniteSets, TLC

VARIABLES dom, op, arg, ret

vars == <<dom, op, arg, ret>>

-----------------------------------------------------------------------------
(* Bounds of the model *)

\* nodes of a snapshot (root element included) of the pages with inline SVG
MaxTagNodes == 4
\* nodes of a snapshot (root element included) of the pages with forms
MaxInputNodes == 3
\* nodes of a snapshot (root element included) of the pages with buttons
MaxButtonNodes == 3

-----------------------------------------------------------------------------
(* Values of the host language and of the DOM *)

\* Python's None / JavaScript's undefined, as execute_script returns it
None == "None"

\* the end of a previousElementSibling chain
Null == -1

\* the document node: parentNode of the root element
Document == 0

ELEMENT_NODE == 1

\* Python truthiness of a string-or-None value: None and "" are falsy
Truthy(v) == v # None /\ v # ""

-----------------------------------------------------------------------------
(* Strings: names are kept as sequences of characters *)

UpperChars == <<"A","B","C","D","E","F","G","H","I","J","K","L","M",
                "N","O","P","Q","R","S","T","U","V","W","X","Y","Z">>
LowerChars == <<"a","b","c","d","e","f","g","h","i","j","k","l","m",
                "n","o","p","q","r","s","t","u","v","w","x","y","z">>

LowerChar(c) ==
    IF \E i \in DOMAIN UpperChars : UpperChars[i] = c
    THEN LowerChars[CHOOSE i \in DOMAIN UpperChars : UpperChars[i] = c]
    ELSE c

UpperChar(c) ==
    IF \E i \in DOMAIN LowerChars : LowerChars[i] = c
    THEN UpperChars[CHOOSE i \in DOMAIN LowerChars : LowerChars[i] = c]
    ELSE c

\* String.prototype.toLowerCase
ToLowerCase(s) == [i \in DOMAIN s |-> LowerChar(s[i])]

ToUpperCase(s) == [i \in DOMAIN s |-> UpperChar(s[i])]

\* the string spelled by a sequence of characters
RECURSIVE Str(_)
Str(s) == IF s = <<>> THEN "" ELSE Head(s) \o Str(Tail(s))

\* Array.prototype.join
RECURSIVE Join(_, _)
Join(path, sep) ==
    IF path = <<>> THEN ""
    ELSE IF Len(path) = 1 THEN path[1]
    ELSE path[1] \o sep \o Join(Tail(path), sep)

-----------------------------------------------------------------------------
(* The DOM snapshot *)

\* the attribute map of an element without attributes
NoAttrs == [a \in {} |-> ""]

ElementNode(ns, localName, attrs, displayed, enabled) ==
    [kind |-> "element", depth |-> 1, ns |-> ns, localName |-> localName,
     attrs |-> attrs, displayed |-> displayed, enabled |-> enabled]

TextNode ==
    [kind |-> "text", depth |-> 1, ns |-> "", localName |-> <<>>,
     attrs |-> NoAttrs, displayed |-> TRUE, enabled |-> TRUE]

\* the document element of an HTML page
RootNode == ElementNode("html", <<"h","t","m","l">>, NoAttrs, TRUE, TRUE)

Nodes == 1 .. Len(dom)

Elements == {n \in Nodes : dom[n].kind = "element"}

Max(S) == CHOOSE x \in S : \A y \in S : y <= x

\* el.parentNode
ParentNode(n) ==
    IF dom[n].depth = 1 THEN Document
    ELSE Max({j \in 1 .. (n - 1) : dom[j].depth = dom[n].depth - 1})

\* el.previousElementSibling
PreviousElementSibling(n) ==
    LET before == {j \in 1 .. (n - 1) :
                      /\ dom[j].depth = dom[n].depth
                      /\ ParentNode(j) = ParentNode(n)
                      /\ dom[j].kind = "element"}
    IN  IF before = {} THEN Null ELSE Max(before)

\* el.nodeType: 1 for an element, 3 for a text node, 9 for the document
NodeType(n) ==
    IF n = Document THEN 9
    ELSE IF dom[n].kind = "element" THEN ELEMENT_NODE
    ELSE 3

\* el.nodeName of an element of an HTML document: the qualified name, in
\* upper case for an element of the HTML namespace
NodeName(n) ==
    IF dom[n].ns = "html" THEN ToUpperCase(dom[n].localName)
    ELSE dom[n].localName

\* mutant: the guard lets every node through
InstanceOfAnyNode(n) == TRUE

\* el instanceof Element
InstanceOfElement(n) == dom[n].kind = "element"

\* WebElement.is_displayed(), WebElement.is_enabled()
IsDisplayed(n) == dom[n].displayed
IsEnabled(n) == dom[n].enabled

-----------------------------------------------------------------------------
(* tag_from_element: the injected script getPathTo *)

\* var selector = el.nodeName.toLowerCase();
SelectorOf(el) == ToLowerCase(NodeName(el))

\* if (sib.nodeName.toLowerCase() == selector)
SameSelector(sib, selector) == ToLowerCase(NodeName(sib)) = selector

\* var sib = el, nth = 1; while (sib = sib.previousElementSibling) {...}
RECURSIVE CountNth(_, _, _)
CountNth(sib, selector, nth) ==
    LET prev == PreviousElementSibling(sib)
    IN  IF prev = Null THEN nth
        ELSE CountNth(prev, selector,
                      IF SameSelector(prev, selector) THEN nth + 1 ELSE nth)

\* selector += ":nth-of-type("+nth+")";
Level(selector, nth) == Str(selector) \o ":nth-of-type(" \o ToString(nth) \o ")"

\* while (el.nodeType === Node.ELEMENT_NODE) { ...; path.unshift(selector);
\*                                             el = el.parentNode; }
RECURSIVE WalkUp(_, _)
WalkUp(el, path) ==
    IF NodeType(el) = ELEMENT_NODE
    THEN LET selector == SelectorOf(el)
             nth == CountNth(el, selector, 1)
         IN  WalkUp(ParentNode(el), <<Level(selector, nth)>> \o path)
    ELSE path

GetPathTo(el) ==
    IF ~InstanceOfElement(el) THEN None
    ELSE Join(WalkUp(el, <<>>), " > ")

\* return self.driver.execute_script(script, element)
TagFromElement(element) == GetPathTo(element)

-----------------------------------------------------------------------------
(* Path expressions and the DOM query helper *)

\* A path expression is a sequence of alternatives (the operands of "|").
\* An alternative starts at the document root ("/...") or at the context
\* node, and takes steps: "//name" is a descendant step, "name" a child
\* step, "[@a='v']" a predicate <<a, v>> on the step.
NoPred == <<>>

AttrIs(a, v) == <<a, v>>

Desc(name, pred) == [axis |-> "descendant", name |-> name, pred |-> pred]

Child(name, pred) == [axis |-> "child", name |-> name, pred |-> pred]

FromRoot(steps) == [from |-> "root", steps |-> steps]

FromContext(steps) == [from |-> "context", steps |-> steps]

\* a name test: in an HTML document a lower-case name selects the elements
\* of the HTML namespace with that local name
NameTest(n, name) ==
    /\ dom[n].kind = "element"
    /\ dom[n].ns = "html"
    /\ Str(dom[n].localName) = name

PredTest(n, pred) ==
    \/ pred = NoPred
    \/ /\ pred # NoPred
       /\ pred[1] \in DOMAIN dom[n].attrs
       /\ dom[n].attrs[pred[1]] = pred[2]

RECURSIVE IsAncestor(_, _)
IsAncestor(a, n) ==
    /\ n # Document
    /\ \/ ParentNode(n) = a
       \/ IsAncestor(a, ParentNode(n))

StepFrom(S, step) ==
    {n \in Nodes :
        /\ NameTest(n, step.name)
        /\ PredTest(n, step.pred)
        /\ \E c \in S : IF step.axis = "descendant"
                        THEN IsAncestor(c, n)
                        ELSE ParentNode(n) = c}

RECURSIVE EvalSteps(_, _)
EvalSteps(S, steps) ==
    IF steps = <<>> THEN S
    ELSE EvalSteps(StepFrom(S, Head(steps)), Tail(steps))

EvalPath(alt, context) ==
    EvalSteps({IF alt.from = "root" THEN Document ELSE context}, alt.steps)

\* a node set in document order
RECURSIVE InDocumentOrder(_)
InDocumentOrder(S) ==
    IF S = {} THEN <<>>
    ELSE LET first == CHOOSE x \in S : \A y \in S : x <= y
         IN  <<first>> \o InDocumentOrder(S \ {first})

\* Dom.elements_by_path(path): the call passes the path alone, so the
\* expression is evaluated by the driver, with the document as context
\* node; the matches come back without duplicates, in document order
ElementsByPath(x_path) ==
    InDocumentOrder(UNION {EvalPath(x_path[i], Document) : i \in DOMAIN x_path})

-----------------------------------------------------------------------------
(* clickable_sanity_check *)

\* TaggerBase.clickable_sanity_check: the verdict of the base class is an
\* input of the model
BaseClickableSanityCheck(element, verdict) == verdict

\* mutant: "or" in place of "and"
ClickableRejectedEither(element) == ~IsDisplayed(element) \/ ~IsEnabled(element)

\* if not element.is_displayed() and not element.is_enabled():
ClickableRejected(element) == ~IsDisplayed(element) /\ ~IsEnabled(element)

ClickableSanityCheck(element, verdict) ==
    IF ClickableRejected(element)
    THEN [value |-> FALSE, super_called |-> FALSE]
    ELSE [value |-> BaseClickableSanityCheck(element, verdict),
          super_called |-> TRUE]

-----------------------------------------------------------------------------
(* get_inputs *)

\* mutant: "select" is taken for the value of a type attribute
InputsPathNoSelect(itype) ==
    IF Truthy(itype)
    THEN <<FromRoot(<<Desc("input", AttrIs("type", itype))>>),
           FromContext(<<Child("input", AttrIs("type", itype))>>)>>
    ELSE <<FromRoot(<<Desc("input", NoPred)>>),
           FromContext(<<Child("input", NoPred)>>)>>

\* x_path = "//input|input" / "//select|select" /
\*          "//input[@type='%s']|input[@type='%s']" % (itype, itype)
InputsPath(itype) ==
    IF itype = "select"
    THEN <<FromRoot(<<Desc("select", NoPred)>>),
           FromContext(<<Child("select", NoPred)>>)>>
    ELSE IF Truthy(itype)
    THEN <<FromRoot(<<Desc("input", AttrIs("type", itype))>>),
           FromContext(<<Child("input", AttrIs("type", itype))>>)>>
    ELSE <<FromRoot(<<Desc("input", NoPred)>>),
           FromContext(<<Child("input", NoPred)>>)>>

\* x_path = ".%s" % x_path: the dot goes before the first alternative
DotPrefix(x_path) == [x_path EXCEPT ![1].from = "context"]

\* for input in elems: ... tags.append(input_tag)
RECURSIVE InputTags(_, _)
InputTags(elems, tags) ==
    IF elems = <<>> THEN tags
    ELSE LET input_tag == TagFromElement(Head(elems))
         IN  IF ~Truthy(input_tag)
             THEN InputTags(Tail(elems), tags)
             ELSE InputTags(Tail(elems), Append(tags, input_tag))

\* form is <<>> for None and <<f>> for the form element f
GetInputs(form, itype) ==
    LET scoped == form # <<>>
        elem   == IF scoped THEN form[1] ELSE Document
        x_path == IF scoped THEN DotPrefix(InputsPath(itype))
                  ELSE InputsPath(itype)
        elems  == ElementsByPath(x_path)
    IN  InputTags(elems, <<>>)

-----------------------------------------------------------------------------
(* get_forms *)

FormsPath == <<FromRoot(<<Desc("form", NoPred)>>)>>

\* mutant: "and" in place of "or"
FormSkippedBoth(elem) == ~IsDisplayed(elem) /\ ~IsEnabled(elem)

\* if not elem.is_displayed() or not elem.is_enabled(): continue
FormSkipped(elem) == ~IsDisplayed(elem) \/ ~IsEnabled(elem)

EmptyDict == [k \in {} |-> <<>>]

\* tags[tag] = value
DictSet(d, k, v) == [x \in (DOMAIN d) \cup {k} |-> IF x = k THEN v ELSE d[x]]

FormInputs(elem) ==
    << GetInputs(<<elem>>, "text"),
       GetInputs(<<elem>>, "select"),
       GetInputs(<<elem>>, "checkbox"),
       GetInputs(<<elem>>, "date") >>

RECURSIVE FormTags(_, _)
FormTags(forms, tags) ==
    IF forms = <<>> THEN tags
    ELSE LET elem == Head(forms)
         IN  IF FormSkipped(elem)
             THEN FormTags(Tail(forms), tags)
             ELSE LET tag == TagFromElement(elem)
                  IN  IF ~Truthy(tag)
                      THEN FormTags(Tail(forms), tags)
                      ELSE FormTags(Tail(forms),
                                    DictSet(tags, tag, FormInputs(elem)))

GetForms == FormTags(ElementsByPath(FormsPath), EmptyDict)

-----------------------------------------------------------------------------
(* get_buttons *)

ButtonsPath ==
    << FromRoot(<<Desc("form", NoPred), Desc("a", NoPred)>>),
       FromRoot(<<Desc("button", NoPred)>>),
       FromRoot(<<Desc("input", AttrIs("type", "button"))>>),
       FromRoot(<<Desc("input", AttrIs("type", "submit"))>>),
       FromRoot(<<Desc("table", NoPred), Desc("a", NoPred)>>) >>

\* mutant: "and" in place of "or"
ButtonSkippedBoth(elem) == ~IsDisplayed(elem) /\ ~IsEnabled(elem)

\* if not elem.is_displayed() or not elem.is_enabled(): continue
ButtonSkipped(elem) == ~IsDisplayed(elem) \/ ~IsEnabled(elem)

RECURSIVE ButtonTags(_, _)
ButtonTags(btns, tags) ==
    IF btns = <<>> THEN tags
    ELSE LET elem == Head(btns)
         IN  IF ButtonSkipped(elem)
             THEN ButtonTags(Tail(btns), tags)
             ELSE LET tag == TagFromElement(elem)
                  IN  IF ~Truthy(tag)
                      THEN ButtonTags(Tail(btns), tags)
                      ELSE ButtonTags(Tail(btns), Append(tags, tag))

GetButtons(in_form) == ButtonTags(ElementsByPath(ButtonsPath), <<>>)

-----------------------------------------------------------------------------
(* The snapshots the model starts from *)

Flags == BOOLEAN \X BOOLEAN

HtmlElement(name) == ElementNode("html", name, NoAttrs, TRUE, TRUE)

SvgElement(name) == ElementNode("svg", name, NoAttrs, TRUE, TRUE)

InputElement(attrs, f) ==
    ElementNode("html", <<"i","n","p","u","t">>, attrs, f[1], f[2])

\* nodes of the snapshots of the tag computations: HTML elements, elements
\* of inline SVG (whose names keep their case) and text nodes
TagSpecies ==
    { HtmlElement(<<"d","i","v">>),
      HtmlElement(<<"a">>),
      SvgElement(<<"a">>),
      SvgElement(<<"f","o","r","e","i","g","n","O","b","j","e","c","t">>),
      TextNode }

\* nodes of the snapshots of the form enumerations
InputsSpecies ==
    { ElementNode("html", <<"f","o","r","m">>, NoAttrs, f[1], f[2]) : f \in Flags }
    \cup
    { InputElement([type |-> "text"], <<TRUE, TRUE>>),
      InputElement([type |-> "checkbox"], <<TRUE, TRUE>>),
      InputElement([type |-> "date"], <<TRUE, TRUE>>),
      InputElement(NoAttrs, <<TRUE, TRUE>>),
      HtmlElement(<<"s","e","l","e","c","t">>) }

\* nodes of the snapshots of the button enumeration
ButtonsSpecies ==
    { HtmlElement(<<"f","o","r","m">>), HtmlElement(<<"t","a","b","l","e">>) }
    \cup
    { ElementNode("html", <<"a">>, NoAttrs, f[1], f[2]) : f \in Flags }
    \cup
    { ElementNode("html", <<"b","u","t","t","o","n">>, NoAttrs, f[1], f[2]) :
        f \in Flags }
    \cup
    { InputElement([type |-> t], f) : t \in {"button", "submit"}, f \in Flags }

\* the depths of the nodes of a snapshot of n nodes, in document order:
\* the root element at depth 1, every other node at most one level below
\* the node before it
Shapes(n) ==
    { d \in [1 .. n -> 1 .. n] :
        /\ d[1] = 1
        /\ \A i \in 2 .. n : 2 <= d[i] /\ d[i] <= d[i - 1] + 1 }

Snapshot(n, shape, nodes) ==
    [i \in 1 .. n |->
        [(IF i = 1 THEN RootNode ELSE nodes[i - 1]) EXCEPT !.depth = shape[i]]]

\* only an element has children
IsSnapshot(n, d) ==
    \A i \in 2 .. n : d[i].depth = d[i - 1].depth + 1 => d[i - 1].kind = "element"

\* the page shows one of the snapshots of at most max nodes of the species
PageOf(species, max) ==
    \E n \in 1 .. max :
        \E shape \in Shapes(n) :
            \E nodes \in [1 .. (n - 1) -> species] :
                /\ IsSnapshot(n, Snapshot(n, shape, nodes))
                /\ dom = Snapshot(n, shape, nodes)

-----------------------------------------------------------------------------
(* The calls.  Every operation is a synchronous call made while no other
   is in progress (op = "start"); op, arg and ret record the call until it
   returns. *)

ITypes == {None, "select", "text", "checkbox", "date"}

FormElements == {n \in Elements : NameTest(n, "form")}

CallTagFromElement ==
    /\ op = "start"
    /\ \E element \in Nodes :
           /\ op' = "tag_from_element"
           /\ arg' = [element |-> element]
           /\ ret' = TagFromElement(element)
           /\ UNCHANGED dom

CallClickableSanityCheck ==
    /\ op = "start"
    /\ \E element \in Elements, verdict \in BOOLEAN :
           /\ op' = "clickable_sanity_check"
           /\ arg' = [element |-> element, verdict |-> verdict]
           /\ ret' = ClickableSanityCheck(element, verdict)
           /\ UNCHANGED dom

CallGetInputs ==
    /\ op = "start"
    /\ \E form \in {<<>>} \cup {<<f>> : f \in FormElements}, itype \in ITypes :
           /\ op' = "get_inputs"
           /\ arg' = [form |-> form, itype |-> itype]
           /\ ret' = GetInputs(form, itype)
           /\ UNCHANGED dom

CallGetForms ==
    /\ op = "start"
    /\ op' = "get_forms"
    /\ arg' = <<>>
    /\ ret' = GetForms
    /\ UNCHANGED dom

CallGetButtons ==
    /\ op = "start"
    /\ \E in_form \in BOOLEAN :
           /\ op' = "get_buttons"
           /\ arg' = [in_form |-> in_form]
           /\ ret' = GetButtons(in_form)
           /\ UNCHANGED dom

\* the call returns to its caller: the Tagger keeps nothing of it
Return ==
    /\ op # "start"
    /\ op' = "start"
    /\ arg' = <<>>
    /\ ret' = None
    /\ UNCHANGED dom

Next ==
    \/ CallTagFromElement
    \/ CallClickableSanityCheck
    \/ CallGetInputs
    \/ CallGetForms
    \/ CallGetButtons
    \/ Return

NoCall ==
    /\ op = "start"
    /\ arg = <<>>
    /\ ret = None

\* every call, on pages with inline SVG and text nodes
Init ==
    /\ PageOf(TagSpecies, MaxTagNodes)
    /\ NoCall

Spec == Init /\ [][Next]_vars

\* the form enumerations, on pages of forms, inputs and selects
InitInputs ==
    /\ PageOf(InputsSpecies, MaxInputNodes)
    /\ NoCall

NextInputs ==
    \/ CallGetInputs
    \/ CallGetForms
    \/ Return

SpecInputs == InitInputs /\ [][NextInputs]_vars

\* the button enumeration and the clickability check, on pages of anchors,
\* buttons and button inputs that may be hidden or disabled
InitButtons ==
    /\ PageOf(ButtonsSpecies, MaxButtonNodes)
    /\ NoCall

NextButtons ==
    \/ CallGetButtons
    \/ CallClickableSanityCheck
    \/ Return

SpecButtons == InitButtons /\ [][NextButtons]_vars

-----------------------------------------------------------------------------
(* Re-resolution of a tag: the browser looks the tag up as a CSS selector *)

\* :nth-of-type counts the earlier siblings of the same element type
NthOfType(n) ==
    1 + Cardinality({s \in Elements :
                        /\ s < n
                        /\ ParentNode(s) = ParentNode(n)
                        /\ dom[s].ns = dom[n].ns
                        /\ dom[s].localName = dom[n].localName})

\* the spellings of a type selector that select element n: any case for an
\* HTML element of an HTML document, the exact local name for any other
TypeSelectorsOf(n) ==
    IF dom[n].ns = "html"
    THEN {dom[n].localName, ToLowerCase(dom[n].localName),
          ToUpperCase(dom[n].localName)}
    ELSE {dom[n].localName}

\* the compound selectors "name:nth-of-type(k)" that element n matches
CompoundsOf(n) ==
    {Str(c) \o ":nth-of-type(" \o ToString(NthOfType(n)) \o ")" :
        c \in TypeSelectorsOf(n)}

\* the selectors of k compounds joined by the child combinator that
\* element n matches
RECURSIVE SelectorsOf(_, _)
SelectorsOf(n, k) ==
    IF k = 1 THEN CompoundsOf(n)
    ELSE IF ParentNode(n) = Document THEN {}
    ELSE {p \o " > " \o c : p \in SelectorsOf(ParentNode(n), k - 1),
                            c \in CompoundsOf(n)}

Matches(n, selector) == \E k \in 1 .. dom[n].depth : selector \in SelectorsOf(n, k)

\* the first element in document order that matches, or Null
QuerySelector(selector) ==
    LET found == {n \in Elements : Matches(n, selector)}
    IN  IF found = {} THEN Null
        ELSE CHOOSE n \in found : \A m \in found : n <= m

-----------------------------------------------------------------------------
(* Vocabulary of the claims *)

\* the tag name of an element as the DOM holds it
TagName(n) == Str(dom[n].localName)

\* the nodes from the root element down to n
RECURSIVE Lineage(_)
Lineage(n) == IF n = Document THEN <<>> ELSE Append(Lineage(ParentNode(n)), n)

\* the preceding element siblings of n that have n's tag name
PrecedingOfSameName(n) ==
    {s \in Elements :
        /\ s < n
        /\ ParentNode(s) = ParentNode(n)
        /\ TagName(s) = TagName(n)}

IsNamed(n, name) == dom[n].kind = "element" /\ TagName(n) = name

HasType(n, t) == "type" \in DOMAIN dom[n].attrs /\ dom[n].attrs["type"] = t

\* element n lies inside an element named name
Inside(n, name) == \E a \in Elements : IsNamed(a, name) /\ IsAncestor(a, n)

DisplayedAndEnabled(n) == dom[n].displayed /\ dom[n].enabled

\* the elements get_inputs is asked for
Asked(itype) ==
    IF itype = "select" THEN {n \in Elements : IsNamed(n, "select")}
    ELSE IF itype = None THEN {n \in Elements : IsNamed(n, "input")}
    ELSE {n \in Elements : IsNamed(n, "input") /\ HasType(n, itype)}

\* the elements get_buttons looks for
ButtonLike ==
    {n \in Elements :
        \/ IsNamed(n, "a") /\ Inside(n, "form")
        \/ IsNamed(n, "button")
        \/ IsNamed(n, "input") /\ HasType(n, "button")
        \/ IsNamed(n, "input") /\ HasType(n, "submit")
        \/ IsNamed(n, "a") /\ Inside(n, "table")}

Range(seq) == {seq[i] : i \in DOMAIN seq}

-----------------------------------------------------------------------------
(* Claims about tag_from_element, checked under Spec *)

\* C1: the tag of an attached element is the sequence of its levels from
\* the root element down to it, joined by " > ", each level written
\* tagname:nth-of-type(N) with the node's tag name and N = 1 + the number
\* of preceding element siblings that have the same tag name.
C1_TagIsPathOfLevels ==
    (op = "tag_from_element" /\ arg.element \in Elements) =>
        LET line == Lineage(arg.element)
        IN  ret = Join([i \in DOMAIN line |->
                          TagName(line[i]) \o ":nth-of-type("
                            \o ToString(1 + Cardinality(PrecedingOfSameName(line[i])))
                            \o ")"],
                       " > ")

\* C2: a tag re-resolved against the unchanged snapshot locates the element
\* it was computed from, and no other element of the snapshot has that tag.
C2_TagResolvesToItsElement ==
    (op = "tag_from_element" /\ arg.element \in Elements) =>
        /\ QuerySelector(ret) = arg.element
        /\ \A other \in Elements \ {arg.element} : TagFromElement(other) # ret

\* C4: in every level of a tag the tag name stands with the case it has in
\* the DOM, neither upper- nor lower-cased (whatever the ordinals are).
C4_TagNamesKeepTheirCase ==
    (op = "tag_from_element" /\ arg.element \in Elements) =>
        LET line == Lineage(arg.element)
        IN  \E nth \in [DOMAIN line -> 1 .. Len(dom)] :
                ret = Join([i \in DOMAIN line |->
                              TagName(line[i]) \o ":nth-of-type("
                                \o ToString(nth[i]) \o ")"],
                           " > ")

\* C8: tag_from_element returns the absent value for a node that is not an
\* element (a text node) and a non-absent, non-empty path string for every
\* element node.
C8_AbsentExactlyForNonElements ==
    op = "tag_from_element" =>
        /\ dom[arg.element].kind # "element" => ret = None
        /\ dom[arg.element].kind = "element" =>
              /\ ret # None
              /\ Len(ret) >= Len(TagName(arg.element) \o ":nth-of-type(1)")

\* C8 witness: the tag of a text node was asked for and came back absent
C8_TextNodeHasNoTag ==
    /\ op = "tag_from_element"
    /\ dom[arg.element].kind = "text"
    /\ ret = None

-----------------------------------------------------------------------------
(* Claims about get_inputs and get_forms, checked under SpecInputs *)

\* C3: with a form scope, every tag get_inputs returns is the tag of an
\* element of the asked kind that is a descendant of that form.
C3_ScopedToTheForm ==
    (op = "get_inputs" /\ arg.form # <<>>) =>
        \A i \in DOMAIN ret :
            \E n \in Asked(arg.itype) :
                /\ IsAncestor(arg.form[1], n)
                /\ ret[i] = TagFromElement(n)

C6_KeysAreVisibleForms ==
    op = "get_forms" =>
        DOMAIN ret = {TagFromElement(f) :
                        f \in {n \in Elements :
                                 IsNamed(n, "form") /\ DisplayedAndEnabled(n)}}

\* C6 witness: a page with a form that is not displayed and a visible form
\* gave a mapping with one key
C6_HiddenFormAndVisibleForm ==
    /\ op = "get_forms"
    /\ \E h, v \in Elements :
          /\ IsNamed(h, "form") /\ ~dom[h].displayed
          /\ IsNamed(v, "form") /\ DisplayedAndEnabled(v)
    /\ Cardinality(DOMAIN ret) = 1

-----------------------------------------------------------------------------
(* Claims about get_buttons and clickable_sanity_check, checked under
   SpecButtons *)

\* C7: get_buttons returns the tags of exactly the matched elements that
\* are displayed and enabled, in document order.
C7_VisibleButtonsInOrder ==
    op = "get_buttons" =>
        LET shown == {n \in ButtonLike : DisplayedAndEnabled(n)}
        IN  \E at \in [DOMAIN ret -> shown] :
                /\ \A n \in shown : \E i \in DOMAIN ret : at[i] = n
                /\ \A i, j \in DOMAIN ret : i < j => at[i] < at[j]
                /\ \A i \in DOMAIN ret : ret[i] = TagFromElement(at[i])

\* C7 witness: a button that is disabled and not displayed was left out
\* while another matched element was returned
C7_HiddenDisabledButtonLeftOut ==
    /\ op = "get_buttons"
    /\ \E b \in Elements :
          /\ IsNamed(b, "button")
          /\ ~dom[b].displayed /\ ~dom[b].enabled
          /\ \A i \in DOMAIN ret : ret[i] # TagFromElement(b)
    /\ Len(ret) >= 1

\* C10: clickable_sanity_check returns false without consulting the base
\* check exactly when the element is neither displayed nor enabled; in the
\* three other cases it consults the base check and returns its verdict.
C10_RejectsOnlyTheDoubleNegative ==
    op = "clickable_sanity_check" =>
        LET neither == ~dom[arg.element].displayed /\ ~dom[arg.element].enabled
        IN  /\ neither => (ret.value = FALSE /\ ~ret.super_called)
            /\ ~neither => (ret.super_called /\ ret.value = arg.verdict)

\* C10 witness: an element that is enabled but not displayed was accepted
\* on the verdict of the base check
C10_EnabledButHiddenDefersToBase ==
    /\ op = "clickable_sanity_check"
    /\ dom[arg.element].enabled /\ ~dom[arg.element].displayed
    /\ arg.verdict = TRUE
    /\ ret.value = TRUE

=============================================================================
